---- MODULE Spec2Model ----
(***************************************************************************)
(* Model of the data-shaping core of streamlit_app.py: one rendering pass  *)
(* of main() (load, row projection, sidebar widgets, filters, timeline,    *)
(* sort and profile cards), re-run on every interaction.                   *)
(*                                                                         *)
(* Text is modelled as a sequence of one-character strings, so that        *)
(* lower-casing, substring search, joining, ordering and date parsing are  *)
(* computed character by character.  A JSON object is a function whose     *)
(* domain is the set of keys present; dict.get(k, d) is Get.               *)
(***************************************************************************)
EXTENDS Integers, Sequences, FiniteSets

VARIABLES file, cache, pc, hit, error, profiles, df,
          search_query, min_evidence, selected_size,
          filtered_df, filtered_profiles, date_counts, sort_option, cards

vars == <<file, cache, pc, hit, error, profiles, df,
          search_query, min_evidence, selected_size,
          filtered_df, filtered_profiles, date_counts, sort_option, cards>>

(***************************************************************************)
(* Bounds of the model.                                                    *)
(***************************************************************************)
MaxProfiles == 2
MaxEvidenceCount == 1
MaxSearchLen == 2
MaxSortProfiles == 3
MaxDates == 3

(***************************************************************************)
(* Characters and text.                                                    *)
(***************************************************************************)
Digits == {"0", "1", "2", "3", "4", "5", "6", "7", "8", "9"}

\* ord(c) for the characters the model uses
Code(c) ==
  CASE c = " " -> 32 [] c = "(" -> 40 [] c = "," -> 44 [] c = "-" -> 45
    [] c = "." -> 46
    [] c = "0" -> 48 [] c = "1" -> 49 [] c = "2" -> 50 [] c = "3" -> 51
    [] c = "4" -> 52 [] c = "5" -> 53 [] c = "6" -> 54 [] c = "7" -> 55
    [] c = "8" -> 56 [] c = "9" -> 57
    [] c = "A" -> 65 [] c = "B" -> 66 [] c = "L" -> 76 [] c = "S" -> 83
    [] c = "a" -> 97 [] c = "b" -> 98 [] c = "c" -> 99 [] c = "d" -> 100
    [] c = "l" -> 108 [] c = "o" -> 111 [] c = "t" -> 116

\* str.lower() on one character
LowerChar(c) ==
  CASE c = "A" -> "a" [] c = "B" -> "b" [] c = "L" -> "l" [] c = "S" -> "s"
    [] OTHER -> c

\* str.lower()
Lower(s) == [i \in 1..Len(s) |-> LowerChar(s[i])]

\* Python's str < str: code-point lexicographic order
RECURSIVE StrLess(_, _)
StrLess(s, t) ==
  IF t = <<>> THEN FALSE
  ELSE IF s = <<>> THEN TRUE
  ELSE IF Code(Head(s)) < Code(Head(t)) THEN TRUE
  ELSE IF Code(Head(s)) > Code(Head(t)) THEN FALSE
  ELSE StrLess(Tail(s), Tail(t))

\* dict.get(k, d)
Get(obj, k, d) == IF k \in DOMAIN obj THEN obj[k] ELSE d

\* the JSON object {}
EmptyObject == [k \in {} |-> 0]

Reverse(s) == [i \in 1..Len(s) |-> s[Len(s) + 1 - i]]

\* sep.join(parts), accumulated left to right
RECURSIVE JoinFrom(_, _, _)
JoinFrom(acc, sep, parts) ==
  IF parts = <<>> THEN acc
  ELSE JoinFrom(acc \o sep \o Head(parts), sep, Tail(parts))

Join(sep, parts) ==
  IF parts = <<>> THEN <<>> ELSE JoinFrom(Head(parts), sep, Tail(parts))

CommaSpace == <<",", " ">>

(***************************************************************************)
(* extract_dataframe: one row per profile; pd.DataFrame(rows) of an empty  *)
(* list has no columns at all.                                             *)
(***************************************************************************)
RowColumns == {"username", "full_name", "roles", "company", "company_size",
               "evidence_count", "first_date", "latest_date"}

ProfileRow(profile) ==
  [username       |-> Get(profile, "username", <<>>),
   full_name      |-> Get(profile, "full_name", <<>>),
   roles          |-> Join(CommaSpace, Get(profile, "roles", <<>>)),
   company        |-> Get(profile, "company", <<>>),
   company_size   |-> Get(profile, "company_size", <<>>),
   evidence_count |-> Get(profile, "evidence_count", 0),
   first_date     |-> Get(profile, "first_evidence_date", <<>>),
   latest_date    |-> Get(profile, "latest_evidence_date", <<>>)]

DataFrame(rows) ==
  [columns |-> IF rows = <<>> THEN {} ELSE RowColumns, rows |-> rows]

extract_dataframe_SkipsAnonymous(data) ==
  DataFrame([i \in 1..Len(SelectSeq(Get(data, "profiles", <<>>),
                                    LAMBDA p : "username" \in DOMAIN p))
              |-> ProfileRow(SelectSeq(Get(data, "profiles", <<>>),
                                       LAMBDA p : "username" \in DOMAIN p)[i])])

extract_dataframe(data) ==
  DataFrame([i \in 1..Len(Get(data, "profiles", <<>>))
              |-> ProfileRow(Get(data, "profiles", <<>>)[i])])

(***************************************************************************)
(* Series.str.contains(pat, case=False, na=False): pat is compiled as a    *)
(* regular expression with re.IGNORECASE and searched in every value.      *)
(* Over the model's characters the metacharacters are "." (any character)  *)
(* and "(" (opens a group; never closed here, so re.compile raises).       *)
(***************************************************************************)
RegexError(pat) == \E i \in 1..Len(pat) : pat[i] = "("

AtomMatches(a, c) == a = "." \/ LowerChar(a) = LowerChar(c)

RegexMatchesAt(pat, s, i) ==
  \A j \in 1..Len(pat) : AtomMatches(pat[j], s[i + j - 1])

RegexSearch(pat, s) ==
  \E i \in 1..(Len(s) - Len(pat) + 1) : RegexMatchesAt(pat, s, i)

\* the boolean mask of lines 120-121
SearchMask(row, q) ==
  RegexSearch(q, row.username) \/ RegexSearch(q, row.full_name)

EvidenceMask_Strict(row, m) == row.evidence_count > m

\* the boolean mask of line 124
EvidenceMask(row, m) == row.evidence_count >= m

\* the boolean mask of line 127
SizeMask(row, s) == row.company_size = s

All == <<"A", "l", "l">>

(***************************************************************************)
(* The three filter statements.  A frame is [ok, rows]: ok is FALSE once a *)
(* statement has raised.                                                   *)
(***************************************************************************)
Frame(rows) == [ok |-> TRUE, rows |-> rows]

Raised == [ok |-> FALSE, rows |-> <<>>]

SearchFilter(fr, q) ==
  IF ~fr.ok THEN fr
  ELSE IF q = <<>> THEN fr
  ELSE IF RegexError(q) THEN Raised
  ELSE Frame(SelectSeq(fr.rows, LAMBDA r : SearchMask(r, q)))

EvidenceFilter(fr, m) ==
  IF ~fr.ok THEN fr
  ELSE Frame(SelectSeq(fr.rows, LAMBDA r : EvidenceMask(r, m)))

SizeFilter_FromDf(fr, s) ==
  IF ~fr.ok THEN fr
  ELSE IF s = All THEN fr
  ELSE Frame(SelectSeq(df.rows, LAMBDA r : SizeMask(r, s)))

SizeFilter(fr, s) ==
  IF ~fr.ok THEN fr
  ELSE IF s = All THEN fr
  ELSE Frame(SelectSeq(fr.rows, LAMBDA r : SizeMask(r, s)))

\* lines 117-127, in the order the code applies them
ApplyFilters(rows, q, m, s) ==
  SizeFilter(EvidenceFilter(SearchFilter(Frame(rows), q), m), s)

\* p.get("username") in filtered_df["username"].values: a profile without
\* the key yields None, which equals no value of the column
UsernameIn(p, rows) ==
  /\ "username" \in DOMAIN p
  /\ \E i \in 1..Len(rows) : rows[i].username = p["username"]

RECURSIVE FirstPerUsername(_, _)
FirstPerUsername(ps, seen) ==
  IF ps = <<>> THEN <<>>
  ELSE IF Get(Head(ps), "username", <<>>) \in seen
       THEN FirstPerUsername(Tail(ps), seen)
       ELSE <<Head(ps)>> \o
            FirstPerUsername(Tail(ps), seen \cup {Get(Head(ps), "username", <<>>)})

FilteredProfiles_Dedup(ps, rows) ==
  FirstPerUsername(SelectSeq(ps, LAMBDA p : UsernameIn(p, rows)), {})

\* line 129
FilteredProfiles(ps, rows) == SelectSeq(ps, LAMBDA p : UsernameIn(p, rows))

(***************************************************************************)
(* Sidebar widgets, lines 102-114.                                         *)
(***************************************************************************)
SliderFallback == 10

RECURSIVE SeqMax(_)
SeqMax(s) ==
  IF Len(s) = 1 THEN s[1]
  ELSE IF Head(s) >= SeqMax(Tail(s)) THEN Head(s) ELSE SeqMax(Tail(s))

\* max_value of the slider, line 108
SliderMax(d) ==
  IF d.rows # <<>>
  THEN SeqMax([i \in 1..Len(d.rows) |-> d.rows[i].evidence_count])
  ELSE SliderFallback

\* sorted(list of distinct strings)
RECURSIVE SortedStrings(_)
SortedStrings(S) ==
  IF S = {} THEN <<>>
  ELSE LET least == CHOOSE x \in S : \A y \in S \ {x} : StrLess(x, y)
       IN <<least>> \o SortedStrings(S \ {least})

\* line 113 (df has the column)
CompanySizes(d) ==
  <<All>> \o SortedStrings({d.rows[i].company_size : i \in 1..Len(d.rows)})

(***************************************************************************)
(* Timeline, lines 223-249.  datetime.strptime(s, "%Y-%m-%d") matches      *)
(* \d\d\d\d - (1[0-2]|0[1-9]|[1-9]) - (3[01]|[12]\d|0[1-9]|[1-9]) against  *)
(* the whole string and then builds the date, which checks the year and    *)
(* the day of the month.                                                   *)
(***************************************************************************)
RECURSIVE SplitDash(_, _)
SplitDash(s, part) ==
  IF s = <<>> THEN <<part>>
  ELSE IF Head(s) = "-" THEN <<part>> \o SplitDash(Tail(s), <<>>)
  ELSE SplitDash(Tail(s), Append(part, Head(s)))

IsDigits(t) == \A i \in 1..Len(t) : t[i] \in Digits

DigitValue(c) == Code(c) - Code("0")

RECURSIVE ToInt(_)
ToInt(t) ==
  IF t = <<>> THEN 0
  ELSE 10 * ToInt(SubSeq(t, 1, Len(t) - 1)) + DigitValue(t[Len(t)])

YearField(t) == Len(t) = 4 /\ IsDigits(t)

MonthField(t) ==
  \/ Len(t) = 2 /\ t[1] = "1" /\ t[2] \in {"0", "1", "2"}
  \/ Len(t) = 2 /\ t[1] = "0" /\ t[2] \in Digits \ {"0"}
  \/ Len(t) = 1 /\ t[1] \in Digits \ {"0"}

DayField(t) ==
  \/ Len(t) = 2 /\ t[1] = "3" /\ t[2] \in {"0", "1"}
  \/ Len(t) = 2 /\ t[1] \in {"1", "2"} /\ t[2] \in Digits
  \/ Len(t) = 2 /\ t[1] = "0" /\ t[2] \in Digits \ {"0"}
  \/ Len(t) = 1 /\ t[1] \in Digits \ {"0"}

IsLeap(y) == (y % 4 = 0 /\ y % 100 # 0) \/ y % 400 = 0

DaysInMonth(y, m) ==
  IF m = 2 THEN (IF IsLeap(y) THEN 29 ELSE 28)
  ELSE IF m \in {4, 6, 9, 11} THEN 30 ELSE 31

\* <<[year, month, day]>> when strptime succeeds, <<>> when it raises
ParseDate(s) ==
  LET parts == SplitDash(s, <<>>) IN
  IF Len(parts) = 3 /\ YearField(parts[1]) /\ MonthField(parts[2])
     /\ DayField(parts[3])
  THEN LET y == ToInt(parts[1])
           m == ToInt(parts[2])
           d == ToInt(parts[3])
       IN IF y >= 1 /\ d <= DaysInMonth(y, m)
          THEN <<[year |-> y, month |-> m, day |-> d]>>
          ELSE <<>>
  ELSE <<>>

\* the date strings of every evidence of every profile, in visiting order
RECURSIVE EvidenceDates(_)
EvidenceDates(ps) ==
  IF ps = <<>> THEN <<>>
  ELSE LET ev == Get(Head(ps), "evidence", <<>>)
       IN [i \in 1..Len(ev) |-> Get(ev[i], "date", <<>>)]
            \o EvidenceDates(Tail(ps))

RECURSIVE CollectDates_AbortOnError(_)
CollectDates_AbortOnError(ds) ==
  IF ds = <<>> THEN <<>>
  ELSE IF Head(ds) = <<>> THEN CollectDates_AbortOnError(Tail(ds))
  ELSE IF ParseDate(Head(ds)) = <<>> THEN <<>>
  ELSE ParseDate(Head(ds)) \o CollectDates_AbortOnError(Tail(ds))

\* all_dates, lines 224-233
RECURSIVE CollectDates(_)
CollectDates(ds) ==
  IF ds = <<>> THEN <<>>
  ELSE IF Head(ds) = <<>> THEN CollectDates(Tail(ds))
  ELSE ParseDate(Head(ds)) \o CollectDates(Tail(ds))

DigitChar(n) ==
  CASE n = 0 -> "0" [] n = 1 -> "1" [] n = 2 -> "2" [] n = 3 -> "3"
    [] n = 4 -> "4" [] n = 5 -> "5" [] n = 6 -> "6" [] n = 7 -> "7"
    [] n = 8 -> "8" [] n = 9 -> "9"

\* str(Period(date, "M")): YYYY-MM, zero padded
YearMonth(date) ==
  <<DigitChar((date.year \div 1000) % 10), DigitChar((date.year \div 100) % 10),
    DigitChar((date.year \div 10) % 10), DigitChar(date.year % 10), "-",
    DigitChar(date.month \div 10), DigitChar(date.month % 10)>>

CountOf(b, buckets) ==
  Cardinality({i \in 1..Len(buckets) : buckets[i] = b})

\* value_counts().sort_index(), lines 236-238
ValueCountsSorted(buckets) ==
  LET index == SortedStrings({buckets[i] : i \in 1..Len(buckets)})
  IN [i \in 1..Len(index) |-> <<index[i], CountOf(index[i], buckets)>>]

Timeline(ps) ==
  LET all_dates == CollectDates(EvidenceDates(ps))
  IN ValueCountsSorted([i \in 1..Len(all_dates) |-> YearMonth(all_dates[i])])

(***************************************************************************)
(* Sort, lines 264-272.  list.sort is stable; with reverse=True it         *)
(* reverses the list, sorts it, and reverses it again.                     *)
(***************************************************************************)
HighToLow == "Evidence Count (High to Low)"
LowToHigh == "Evidence Count (Low to High)"
UsernameAZ == "Username (A-Z)"
LatestActivity == "Latest Activity"

SortOptions == {HighToLow, LowToHigh, UsernameAZ, LatestActivity}

\* key(a) < key(b) for the key function of the option
KeyLess(opt, a, b) ==
  CASE opt \in {HighToLow, LowToHigh} ->
         Get(a, "evidence_count", 0) < Get(b, "evidence_count", 0)
    [] opt = UsernameAZ ->
         StrLess(Lower(Get(a, "username", <<>>)), Lower(Get(b, "username", <<>>)))
    [] opt = LatestActivity ->
         StrLess(Get(a, "latest_evidence_date", <<>>),
                 Get(b, "latest_evidence_date", <<>>))

RECURSIVE InsertStable(_, _, _)
InsertStable(sorted, x, opt) ==
  IF sorted = <<>> THEN <<x>>
  ELSE IF KeyLess(opt, x, Head(sorted)) THEN <<x>> \o sorted
  ELSE <<Head(sorted)>> \o InsertStable(Tail(sorted), x, opt)

RECURSIVE SortAscending(_, _, _)
SortAscending(done, rest, opt) ==
  IF rest = <<>> THEN done
  ELSE SortAscending(InsertStable(done, Head(rest), opt), Tail(rest), opt)

SortProfiles_ReverseAfter(ps, opt) ==
  CASE opt \in {HighToLow, LatestActivity} ->
         Reverse(SortAscending(<<>>, ps, opt))
    [] opt \in {LowToHigh, UsernameAZ} -> SortAscending(<<>>, ps, opt)
    [] OTHER -> ps

SortProfiles(ps, opt) ==
  CASE opt \in {HighToLow, LatestActivity} ->
         Reverse(SortAscending(<<>>, Reverse(ps), opt))
    [] opt \in {LowToHigh, UsernameAZ} -> SortAscending(<<>>, ps, opt)
    [] OTHER -> ps

Unknown == <<"U", "n", "k", "n", "o", "w", "n">>

\* the profile cards of lines 275-301, by the username each shows
ProfileCards(ps) == [i \in 1..Len(ps) |-> Get(ps[i], "username", Unknown)]

(***************************************************************************)
(* Input documents.  Every pool is a set of profiles; a document holds a   *)
(* sequence of profiles drawn from one pool.                               *)
(***************************************************************************)
RECURSIVE SeqsUpTo(_, _)
SeqsUpTo(S, n) ==
  IF n = 0 THEN {<<>>}
  ELSE LET shorter == SeqsUpTo(S, n - 1)
       IN shorter \cup {Append(t, x) : t \in shorter, x \in S}

\* {"profiles": ps} for every sequence of at most n profiles of the pool,
\* and {} (no "profiles" key)
Documents(pool, n) ==
  {EmptyObject} \cup {[profiles |-> ps] : ps \in SeqsUpTo(pool, n)}

Files(docs) ==
  {[kind |-> "missing", doc |-> EmptyObject],
   [kind |-> "malformed", doc |-> EmptyObject]}
    \cup {[kind |-> "ok", doc |-> d] : d \in docs}

ab == <<"a", "b">>
bo == <<"b", "o">>
Bo == <<"B", "o">>
Small == <<"S">>
Large == <<"L">>

FilterPool ==
  {[username |-> uc[1], company_size |-> uc[2], evidence_count |-> n] :
     uc \in {<<ab, Small>>, <<ab, Large>>, <<bo, Small>>},
     n \in 0..MaxEvidenceCount}
    \cup {EmptyObject, [full_name |-> Bo]}

Jan15 == <<"2", "0", "2", "4", "-", "0", "1", "-", "1", "5">>
Feb01 == <<"2", "0", "2", "4", "-", "0", "2", "-", "0", "1">>
Dec31 == <<"2", "0", "2", "3", "-", "1", "2", "-", "3", "1">>
Feb30 == <<"2", "0", "2", "4", "-", "0", "2", "-", "3", "0">>
Jan5 == <<"2", "0", "2", "4", "-", "1", "-", "5">>
NotADate == <<"b", "a", "d">>

\* profiles differing in the three sort keys, with ties in each of them
SortPool ==
  {[username |-> u, evidence_count |-> nd[1], latest_evidence_date |-> nd[2]] :
     u \in {<<"a">>, <<"A">>},
     nd \in {<<0, Jan15>>, <<1, Jan15>>, <<1, Feb01>>}}
    \cup {[username |-> <<"b">>, evidence_count |-> 0], EmptyObject}

\* evidence items: a quote and, unless absent, a date string
EvidencePool ==
  {[quote |-> <<"q">>]}
    \cup {[quote |-> <<"q">>, date |-> d] :
            d \in {Jan15, Dec31, Jan5, Feb30, NotADate, <<>>}}

TimelineProfile(items) ==
  IF items = <<>> THEN [username |-> ab]
  ELSE [username |-> ab, evidence |-> items]

\* every sequence of at most n evidence items, split across two profiles
TimelineDocuments(n) ==
  UNION {{[profiles |-> <<TimelineProfile(SubSeq(ev, 1, k)),
                           TimelineProfile(SubSeq(ev, k + 1, Len(ev)))>>] :
            k \in 0..Len(ev)} : ev \in SeqsUpTo(EvidencePool, n)}

ProfileKeys == {"username", "full_name", "roles", "company", "company_size",
                "evidence_count", "first_evidence_date",
                "latest_evidence_date"}

FullProfile(roles) ==
  [username |-> ab, full_name |-> Bo, roles |-> roles,
   company |-> <<"c", "o">>, company_size |-> Small, evidence_count |-> 1,
   first_evidence_date |-> Dec31, latest_evidence_date |-> Jan15]

Restrict(obj, keys) == [k \in keys |-> obj[k]]

\* complete profiles with zero, one and two roles, and profiles lacking
\* one key or every key
ProjectPool ==
  {FullProfile(r) : r \in {<<>>, <<<<"c", "t", "o">>>>,
                           <<<<"c", "t", "o">>, <<"d">>>>}}
    \cup {Restrict(FullProfile(<<<<"d">>, <<"c", "t", "o">>>>), ProfileKeys \ {k}) :
            k \in ProfileKeys}
    \cup {EmptyObject}

SearchPool ==
  {[username |-> u] : u \in {ab, <<"A", ".">>, <<"(", "b">>}}
    \cup {[username |-> u, full_name |-> <<"B", "a">>] :
            u \in {ab, <<"A", ".">>, <<"(", "b">>}}
    \cup {EmptyObject}

SearchAlphabet == {"a", "B", ".", "("}

SearchTexts == SeqsUpTo(SearchAlphabet, MaxSearchLen)

\* search texts typed in the sidebar
FilterTexts == {<<>>, <<"a">>, <<"O">>, <<".">>, <<"(">>}

NoSearch == {<<>>}

(***************************************************************************)
(* The rendering pass.                                                     *)
(***************************************************************************)
NoFrame == DataFrame(<<>>)

InitWith(files) ==
  /\ file \in files
  /\ cache = <<>>
  /\ pc = "start"
  /\ hit = FALSE
  /\ error = ""
  /\ profiles = <<>>
  /\ df = NoFrame
  /\ search_query = <<>>
  /\ min_evidence = 0
  /\ selected_size = All
  /\ filtered_df = NoFrame
  /\ filtered_profiles = <<>>
  /\ date_counts = <<>>
  /\ sort_option = ""
  /\ cards = <<>>

load_data_NoStop(f, c) ==
  IF c # <<>> THEN [stop |-> FALSE, error |-> "", data |-> c[1], hit |-> TRUE]
  ELSE IF f.kind = "missing"
    THEN [stop |-> FALSE, error |-> "File not found", data |-> EmptyObject,
          hit |-> FALSE]
  ELSE IF f.kind = "malformed"
    THEN [stop |-> FALSE, error |-> "Error parsing JSON", data |-> EmptyObject,
          hit |-> FALSE]
  ELSE [stop |-> FALSE, error |-> "", data |-> f.doc, hit |-> FALSE]

\* load_data under st.cache_data: a cached document is returned without
\* reading the file; a failed read shows an error and stops the script
load_data(f, c) ==
  IF c # <<>> THEN [stop |-> FALSE, error |-> "", data |-> c[1], hit |-> TRUE]
  ELSE IF f.kind = "missing"
    THEN [stop |-> TRUE, error |-> "File not found", data |-> EmptyObject,
          hit |-> FALSE]
  ELSE IF f.kind = "malformed"
    THEN [stop |-> TRUE, error |-> "Error parsing JSON", data |-> EmptyObject,
          hit |-> FALSE]
  ELSE [stop |-> FALSE, error |-> "", data |-> f.doc, hit |-> FALSE]

\* lines 93-96
LoadStep ==
  /\ pc = "start"
  /\ LET r == load_data(file, cache) IN
       /\ hit' = r.hit
       /\ error' = r.error
       /\ IF r.stop
          THEN /\ pc' = "stopped"
               /\ UNCHANGED <<cache, profiles, df>>
          ELSE /\ pc' = "loaded"
               /\ cache' = <<r.data>>
               /\ profiles' = Get(r.data, "profiles", <<>>)
               /\ df' = extract_dataframe(r.data)
  /\ UNCHANGED <<file, search_query, min_evidence, selected_size, filtered_df,
                 filtered_profiles, date_counts, sort_option, cards>>

\* lines 102-114: df["company_size"] raises KeyError on a frame without
\* columns
SidebarStep(texts) ==
  /\ pc = "loaded"
  /\ \E q \in texts, m \in 0..SliderMax(df) :
       /\ search_query' = q
       /\ min_evidence' = m
       /\ IF "company_size" \in df.columns
          THEN \E k \in 1..Len(CompanySizes(df)) :
                 /\ selected_size' = CompanySizes(df)[k]
                 /\ pc' = "queried"
                 /\ error' = error
          ELSE /\ pc' = "crashed"
               /\ error' = "KeyError"
               /\ UNCHANGED selected_size
  /\ UNCHANGED <<file, cache, hit, profiles, df, filtered_df,
                 filtered_profiles, date_counts, sort_option, cards>>

\* lines 117-129
FilterStep ==
  /\ pc = "queried"
  /\ LET fr == ApplyFilters(df.rows, search_query, min_evidence, selected_size)
     IN IF fr.ok
        THEN /\ filtered_df' = [columns |-> df.columns, rows |-> fr.rows]
             /\ filtered_profiles' = FilteredProfiles(profiles, fr.rows)
             /\ pc' = "filtered"
             /\ error' = error
        ELSE /\ pc' = "crashed"
             /\ error' = "re.error"
             /\ UNCHANGED <<filtered_df, filtered_profiles>>
  /\ UNCHANGED <<file, cache, hit, profiles, df, search_query, min_evidence,
                 selected_size, date_counts, sort_option, cards>>

\* lines 223-249
TimelineStep ==
  /\ pc = "filtered"
  /\ date_counts' = Timeline(profiles)
  /\ pc' = "timelined"
  /\ UNCHANGED <<file, cache, hit, error, profiles, df, search_query,
                 min_evidence, selected_size, filtered_df, filtered_profiles,
                 sort_option, cards>>

SortStep_SortsProfiles ==
  /\ pc = "timelined"
  /\ \E opt \in SortOptions :
       /\ sort_option' = opt
       /\ profiles' = SortProfiles(profiles, opt)
       /\ filtered_profiles' =
            FilteredProfiles(SortProfiles(profiles, opt), filtered_df.rows)
       /\ cache' = <<[cache[1] EXCEPT !["profiles"] = SortProfiles(profiles, opt)]>>
       /\ cards' = ProfileCards(filtered_profiles')
  /\ pc' = "done"
  /\ UNCHANGED <<file, hit, error, df, search_query, min_evidence,
                 selected_size, filtered_df, date_counts>>

\* lines 259-301
SortStep ==
  /\ pc = "timelined"
  /\ \E opt \in SortOptions :
       /\ sort_option' = opt
       /\ filtered_profiles' = SortProfiles(filtered_profiles, opt)
       /\ cards' = ProfileCards(SortProfiles(filtered_profiles, opt))
  /\ pc' = "done"
  /\ UNCHANGED <<file, cache, hit, error, profiles, df, search_query,
                 min_evidence, selected_size, filtered_df, date_counts>>

\* an interaction re-runs the script from the top; only the cached
\* document survives
Rerun ==
  /\ pc \in {"done", "stopped", "crashed"}
  /\ pc' = "start"
  /\ hit' = FALSE
  /\ error' = ""
  /\ profiles' = <<>>
  /\ df' = NoFrame
  /\ search_query' = <<>>
  /\ min_evidence' = 0
  /\ selected_size' = All
  /\ filtered_df' = NoFrame
  /\ filtered_profiles' = <<>>
  /\ date_counts' = <<>>
  /\ sort_option' = ""
  /\ cards' = <<>>
  /\ UNCHANGED <<file, cache>>

Init == InitWith(Files(Documents(FilterPool, MaxProfiles)))

Next ==
  \/ LoadStep
  \/ SidebarStep(FilterTexts)
  \/ FilterStep
  \/ TimelineStep
  \/ SortStep
  \/ Rerun

Spec == Init /\ [][Next]_vars

InitSearch == InitWith(Files(Documents(SearchPool, MaxProfiles)))

NextSearch ==
  \/ LoadStep
  \/ SidebarStep(SearchTexts)
  \/ FilterStep
  \/ TimelineStep
  \/ SortStep
  \/ Rerun

SpecSearch == InitSearch /\ [][NextSearch]_vars

NextQuiet ==
  \/ LoadStep
  \/ SidebarStep(NoSearch)
  \/ FilterStep
  \/ TimelineStep
  \/ SortStep
  \/ Rerun

InitProject == InitWith(Files(Documents(ProjectPool, MaxProfiles)))

SpecProject == InitProject /\ [][NextQuiet]_vars

InitSort == InitWith(Files(Documents(SortPool, MaxSortProfiles)))

SpecSort == InitSort /\ [][NextQuiet]_vars

InitTimeline == InitWith(Files(TimelineDocuments(MaxDates)))

SpecTimeline == InitTimeline /\ [][NextQuiet]_vars

(***************************************************************************)
(* Properties.                                                             *)
(***************************************************************************)
DocProfiles == Get(file.doc, "profiles", <<>>)

AfterLoad == {"loaded", "queried", "filtered", "timelined", "done", "crashed"}

AfterFilter == {"filtered", "timelined", "done"}

RECURSIVE IsSubsequence(_, _)
IsSubsequence(s, t) ==
  IF s = <<>> THEN TRUE
  ELSE IF t = <<>> THEN FALSE
  ELSE IF Head(s) = Head(t) THEN IsSubsequence(Tail(s), Tail(t))
  ELSE IsSubsequence(s, Tail(t))

\* the k-th smallest element of a set of numbers
Nth(S, k) == CHOOSE i \in S : Cardinality({j \in S : j < i}) = k - 1

\* C1: a document with zero profiles renders without failure, with empty
\* rows, empty filter results and an empty timeline.
C1_ZeroProfilesRender ==
  (file.kind = "ok" /\ DocProfiles = <<>>) =>
     /\ pc # "crashed"
     /\ df.rows = <<>>
     /\ filtered_df.rows = <<>>
     /\ filtered_profiles = <<>>
     /\ date_counts = <<>>

\* indices of the profiles whose username is the username of a filtered row
MatchedProfiles ==
  {i \in 1..Len(profiles) :
     /\ "username" \in DOMAIN profiles[i]
     /\ \E j \in 1..Len(filtered_df.rows) :
          filtered_df.rows[j].username = profiles[i]["username"]}

\* C2: the filtered profiles are exactly the profiles, in document order,
\* whose username equals the username of some filtered row; every profile
\* sharing a matched username is included.
C2_FilteredProfilesByUsername ==
  pc \in {"filtered", "timelined"} =>
     /\ Len(filtered_profiles) = Cardinality(MatchedProfiles)
     /\ \A k \in 1..Len(filtered_profiles) :
          filtered_profiles[k] = profiles[Nth(MatchedProfiles, k)]

C2_Witness ==
  /\ pc = "filtered"
  /\ Len(profiles) = 2
  /\ "username" \in DOMAIN profiles[1]
  /\ "username" \in DOMAIN profiles[2]
  /\ profiles[1]["username"] = profiles[2]["username"]
  /\ profiles[1] # profiles[2]
  /\ Len(filtered_df.rows) = 1
  /\ filtered_profiles = profiles

\* C3: the filtered rows are a sub-sequence of the rows, and with no search
\* text, min_evidence = 0 and company size "All" they are the rows unchanged.
C3_FilterNarrows ==
  pc \in AfterFilter =>
     /\ IsSubsequence(filtered_df.rows, df.rows)
     /\ (search_query = <<>> /\ min_evidence = 0 /\ selected_size = All)
          => filtered_df.rows = df.rows

C3_Witness ==
  /\ pc = "filtered"
  /\ search_query = <<>> /\ min_evidence = 0 /\ selected_size = All
  /\ Len(df.rows) = 2
  /\ df.rows[1].evidence_count = 0
  /\ df.rows[1] # df.rows[2]
  /\ filtered_df.rows = df.rows

\* C6: a missing or malformed source stops the pass at the load with an error
\* shown: no rows, filter result, timeline or profile card is produced.
C6_FailedLoadIsTerminal ==
  file.kind # "ok" =>
     /\ pc \in {"start", "stopped"}
     /\ pc = "stopped" =>
          error = (IF file.kind = "missing" THEN "File not found"
                   ELSE "Error parsing JSON")
     /\ cache = <<>>
     /\ profiles = <<>> /\ df = NoFrame /\ filtered_df = NoFrame
     /\ filtered_profiles = <<>> /\ date_counts = <<>> /\ cards = <<>>

C6_Witness ==
  pc = "stopped" /\ file.kind = "malformed" /\ error = "Error parsing JSON"

\* the row satisfies all three criteria of the current query
AllThree(r) ==
  /\ search_query = <<>> \/ SearchMask(r, search_query)
  /\ r.evidence_count >= min_evidence
  /\ selected_size = All \/ r.company_size = selected_size

\* the three filter statements applied in each of the six orders
SixOrders ==
  LET fr == Frame(df.rows)
      q == search_query
      m == min_evidence
      z == selected_size
  IN {SizeFilter(EvidenceFilter(SearchFilter(fr, q), m), z),
      EvidenceFilter(SizeFilter(SearchFilter(fr, q), z), m),
      SizeFilter(SearchFilter(EvidenceFilter(fr, m), q), z),
      SearchFilter(SizeFilter(EvidenceFilter(fr, m), z), q),
      EvidenceFilter(SearchFilter(SizeFilter(fr, z), q), m),
      SearchFilter(EvidenceFilter(SizeFilter(fr, z), m), q)}

\* C9: the three filters commute: each of the six orders gives the filtered
\* rows of the pass, which are the rows satisfying all three predicates.
C9_FiltersCommute ==
  /\ pc \in AfterFilter =>
       /\ SixOrders = {Frame(filtered_df.rows)}
       /\ filtered_df.rows = SelectSeq(df.rows, AllThree)
  /\ (pc = "crashed" /\ error = "re.error") => SixOrders = {Raised}

C9_Witness ==
  /\ pc = "filtered"
  /\ search_query # <<>> /\ min_evidence > 0 /\ selected_size # All
  /\ Len(df.rows) = 2
  /\ Len(filtered_df.rows) = 1
  /\ ~(df.rows[1].evidence_count >= min_evidence
       /\ df.rows[2].evidence_count >= min_evidence)

\* C10: across interactions the cached document, the profile sequence and the
\* row table keep the content and order of the loaded document, and the
\* output of a pass is a function of the document, the query and the sort key.
C10_InputsUnchanged ==
  /\ cache # <<>> => cache = <<file.doc>>
  /\ pc \in AfterLoad =>
       /\ profiles = DocProfiles
       /\ df = extract_dataframe(file.doc)
  /\ pc = "done" =>
       filtered_profiles =
         SortProfiles(
           FilteredProfiles(DocProfiles,
             ApplyFilters(extract_dataframe(file.doc).rows, search_query,
                          min_evidence, selected_size).rows),
           sort_option)

C10_Witness ==
  /\ pc = "done"
  /\ hit
  /\ Len(profiles) = 2
  /\ Len(filtered_profiles) = 2
  /\ filtered_profiles # profiles

\* the filtered profiles before the sort of the pass
Unsorted == FilteredProfiles(profiles, filtered_df.rows)

Rearrangements(n) ==
  {f \in [1..n -> 1..n] : \A i, j \in 1..n : f[i] = f[j] => i = j}

EvidenceKey(p) == IF "evidence_count" \in DOMAIN p THEN p["evidence_count"] ELSE 0

NameKey(p) == IF "username" \in DOMAIN p THEN Lower(p["username"]) ELSE <<>>

DateKey(p) ==
  IF "latest_evidence_date" \in DOMAIN p THEN p["latest_evidence_date"] ELSE <<>>

\* a may stand before b under the option
InOrder(opt, a, b) ==
  CASE opt = HighToLow -> EvidenceKey(a) >= EvidenceKey(b)
    [] opt = LowToHigh -> EvidenceKey(a) <= EvidenceKey(b)
    [] opt = UsernameAZ -> ~StrLess(NameKey(b), NameKey(a))
    [] opt = LatestActivity -> ~StrLess(DateKey(a), DateKey(b))

SameKey(opt, a, b) ==
  CASE opt \in {HighToLow, LowToHigh} -> EvidenceKey(a) = EvidenceKey(b)
    [] opt = UsernameAZ -> NameKey(a) = NameKey(b)
    [] opt = LatestActivity -> DateKey(a) = DateKey(b)

\* C4: under each sort key the sorted profiles are a permutation of the
\* filtered profiles, ordered by the key in its direction, and profiles with
\* equal keys keep their relative order (also under the descending keys).
C4_SortOrderedAndStable ==
  pc = "done" =>
    \E f \in Rearrangements(Len(Unsorted)) :
      /\ Len(filtered_profiles) = Len(Unsorted)
      /\ \A i \in 1..Len(Unsorted) : filtered_profiles[i] = Unsorted[f[i]]
      /\ \A i, j \in 1..Len(Unsorted) :
           i < j =>
             /\ InOrder(sort_option, filtered_profiles[i], filtered_profiles[j])
             /\ SameKey(sort_option, filtered_profiles[i], filtered_profiles[j])
                  => f[i] < f[j]

C4_Witness ==
  /\ pc = "done"
  /\ sort_option = LatestActivity
  /\ Len(Unsorted) = 3
  /\ DateKey(Unsorted[1]) = Jan15
  /\ DateKey(Unsorted[2]) = Feb01
  /\ DateKey(Unsorted[3]) = Jan15
  /\ Unsorted[1] # Unsorted[3]
  /\ filtered_profiles = <<Unsorted[2], Unsorted[1], Unsorted[3]>>

\* every evidence of every profile, as <<profile index, evidence index>>
EvidenceItems ==
  UNION {{<<i, j>> : j \in 1..Len(Get(profiles[i], "evidence", <<>>))} :
           i \in 1..Len(profiles)}

DateOf(it) == Get(profiles[it[1]]["evidence"][it[2]], "date", <<>>)

\* the evidence whose date is present, non-empty and parses, each with the
\* <<year, month>> of its date
ValidItems ==
  {<<it, <<ParseDate(DateOf(it))[1].year, ParseDate(DateOf(it))[1].month>>>> :
     it \in {x \in EvidenceItems : ParseDate(DateOf(x)) # <<>>}}

\* the year and month a bucket label YYYY-MM names
LabelMonth(b) == <<ToInt(SubSeq(b, 1, 4)), ToInt(SubSeq(b, 6, 7))>>

Earlier(a, b) == a[1] < b[1] \/ (a[1] = b[1] /\ a[2] < b[2])

RECURSIVE SumCounts(_)
SumCounts(dc) == IF dc = <<>> THEN 0 ELSE Head(dc)[2] + SumCounts(Tail(dc))

\* C5: the timeline counts, per year-month, the evidence of all profiles whose
\* date parses; empty, absent and malformed dates are skipped without ending
\* the aggregation; buckets ascend by month; the counts sum to the number of
\* valid dates, and the timeline is empty when there is none.
C5_TimelineCountsValidDates ==
  pc = "timelined" =>
    LET valid == ValidItems IN
    /\ Len(date_counts) = Cardinality({v[2] : v \in valid})
    /\ \A k \in 1..Len(date_counts) :
         /\ Len(date_counts[k][1]) = 7
         /\ date_counts[k][1][5] = "-"
         /\ date_counts[k][2] =
              Cardinality({v \in valid : v[2] = LabelMonth(date_counts[k][1])})
         /\ date_counts[k][2] > 0
    /\ \A k, l \in 1..Len(date_counts) :
         k < l => Earlier(LabelMonth(date_counts[k][1]),
                          LabelMonth(date_counts[l][1]))
    /\ SumCounts(date_counts) = Cardinality(valid)
    /\ valid = {} => date_counts = <<>>

C5_Witness ==
  /\ pc = "timelined"
  /\ Len(profiles) = 2
  /\ Get(profiles[1], "evidence", <<>>) =
       <<[quote |-> <<"q">>, date |-> NotADate],
         [quote |-> <<"q">>, date |-> Jan15]>>
  /\ Get(profiles[2], "evidence", <<>>) =
       <<[quote |-> <<"q">>, date |-> Dec31]>>
  /\ date_counts = <<<<<<"2", "0", "2", "3", "-", "1", "2">>, 1>>,
                     <<<<"2", "0", "2", "4", "-", "0", "1">>, 1>>>>

\* search_text is a literal substring of s, ignoring case
LiteralContains(text, s) ==
  \E i \in 1..(Len(s) - Len(text) + 1) :
    \A j \in 1..Len(text) : LowerChar(text[j]) = LowerChar(s[i + j - 1])

LiteralMatch(r) ==
  \/ search_query = <<>>
  \/ LiteralContains(search_query, r.username)
  \/ LiteralContains(search_query, r.full_name)

\* C7: for every search text the search criterion keeps exactly the rows
\* whose username or full_name contains the text as a case-insensitive
\* literal substring (with the other two criteria unrestricted).
C7_SearchIsLiteralSubstring ==
  /\ ~(pc = "crashed" /\ error = "re.error")
  /\ (pc \in AfterFilter /\ min_evidence = 0 /\ selected_size = All) =>
       filtered_df.rows = SelectSeq(df.rows, LiteralMatch)

\* ", ".join of the roles, built from the last element backwards
RECURSIVE RolesText(_)
RolesText(roles) ==
  IF roles = <<>> THEN <<>>
  ELSE IF Len(roles) = 1 THEN roles[1]
  ELSE RolesText(SubSeq(roles, 1, Len(roles) - 1))
         \o <<",", " ">> \o roles[Len(roles)]

FieldOrEmpty(p, k) == IF k \in DOMAIN p THEN p[k] ELSE <<>>

\* C8: the projection yields one row per profile, in profile order; each row
\* carries its profile's username and fields, a missing field projects to
\* the empty string (0 for evidence_count), roles to the ", "-joined roles.
C8_OneRowPerProfile ==
  pc \in AfterLoad =>
    /\ Len(df.rows) = Len(profiles)
    /\ \A i \in 1..Len(profiles) :
         /\ df.rows[i].username = FieldOrEmpty(profiles[i], "username")
         /\ df.rows[i].full_name = FieldOrEmpty(profiles[i], "full_name")
         /\ df.rows[i].company = FieldOrEmpty(profiles[i], "company")
         /\ df.rows[i].company_size = FieldOrEmpty(profiles[i], "company_size")
         /\ df.rows[i].first_date =
              FieldOrEmpty(profiles[i], "first_evidence_date")
         /\ df.rows[i].latest_date =
              FieldOrEmpty(profiles[i], "latest_evidence_date")
         /\ df.rows[i].evidence_count =
              (IF "evidence_count" \in DOMAIN profiles[i]
               THEN profiles[i]["evidence_count"] ELSE 0)
         /\ df.rows[i].roles = RolesText(FieldOrEmpty(profiles[i], "roles"))

C8_Witness ==
  /\ pc = "loaded"
  /\ Len(profiles) = 2
  /\ "username" \notin DOMAIN profiles[1]
  /\ "roles" \in DOMAIN profiles[1]
  /\ profiles[2] = EmptyObject
  /\ df.rows[1].username = <<>>
  /\ df.rows[1].roles = <<"d", ",", " ", "c", "t", "o">>
  /\ df.rows[2].evidence_count = 0

====
